---- MODULE Spec2Model ----
(***************************************************************************)
(* Ride-hail dashboard server: the request handlers of server/src/handlers *)
(* over the five tables of server/src/db/schema.ts.                        *)
(*                                                                         *)
(* Units.  Money is counted in thousandths of a currency unit, so that an  *)
(* input with more decimals than the numeric(10,2) columns keep exists.    *)
(* Latitudes are counted in hundredths of a degree along one meridian,     *)
(* distances in metres, time in days.                                      *)
(***************************************************************************)
EXTENDS Integers, Sequences, FiniteSets, TLC

VARIABLES
    users,          \* usersTable: row id -> [email, role]
    profiles,       \* driverProfilesTable: row id -> profile row
    orders,         \* ordersTable: row id -> order row
    bids,           \* driverBidsTable: row id -> bid row
    subscriptions,  \* driverSubscriptionsTable: row id -> subscription row
    now,            \* the wall clock read by new Date() / Date.now()
    last,           \* the handler that returned last, and the error it threw
    calls           \* handler calls in flight between two awaits

vars == <<users, profiles, orders, bids, subscriptions, now, last, calls>>

----------------------------------------------------------------------------
(* Bounds of the model *)

MaxOrders == 1      \* orders created under Spec
MaxBids == 2        \* bids created under Spec
BidMaxOrders == 2   \* orders created under SpecBid
BidMaxBids == 2     \* bids created under SpecBid
RaceMaxOrders == 1  \* orders created under SpecRace
RaceMaxBids == 2    \* bids created under SpecRace
NumCallers == 2     \* acceptBid calls in flight under SpecRace
MaxNow == 31        \* last day the clock reaches under SpecDrivers
MaxSubscriptions == 2   \* subscriptions bought under SpecDrivers
RegMaxUsers == 2     \* users registered under SpecRegister
SubMaxSubscriptions == 2 \* subscriptions bought under SpecSubscribe
PayMaxBids == 1      \* bids created under SpecPay
PayMaxOrders == 1    \* orders created under SpecPay
AvailMaxBids == 1    \* bids created under SpecAvail
AvailMaxOrders == 2  \* orders created under SpecAvail

----------------------------------------------------------------------------
(* Values *)

\* SQL NULL of a nullable column, and undefined for an optional input
NULL == -1

\* NULL of the text column qris_payment_id, whose values are <<time, order id>>
NoPaymentId == <<>>

\* Error messages thrown by the handlers ("ok": the handler returned)
OK == "ok"
ErrOrderIdNotFound == "Order with id not found"
ErrInvalidTransition == "Invalid status transition"
ErrOrderNotOwned == "Order not found or does not belong to this passenger"
ErrBidNotFound == "Bid not found or does not belong to this order"
ErrNotPending == "Order is not in pending status and cannot accept bids"
ErrOrderNotFound == "Order not found"
ErrNotBiddable == "Order is not available for bidding"
ErrDriverInvalid == "Driver not found or invalid"
ErrDriverUnavailable == "Driver is not available"
ErrSubscriptionInactive == "Driver subscription is inactive or expired"
ErrBidsNotPending == "Order with id is not in pending status"
ErrPayNotOwned == "Order not found or does not belong to passenger"
ErrNotPayable == "Order is not in a payable state"
ErrAlreadyPaid == "Order has already been paid"
ErrAmountMismatch == "Payment amount does not match order fare"
ErrPassengerNotFound == "Passenger with ID not found"
ErrProfileNotFound == "Driver profile not found"
ErrDriverNotFound == "Driver not found"
ErrNotADriver == "User is not a driver"
ErrSubscriptionExpired == "Driver subscription has expired"
ErrEmailExists == "Email already exists"
ErrUserNotFound == "User not found"
ErrMustBeDriver == "User must have driver role to create driver profile"
ErrProfileExists == "Driver profile already exists for this user"
ErrUniqueEmail == "duplicate key value violates unique constraint"
ErrStatement == "the statement failed"

\* A monthly subscription lasts 30 days
SubscriptionDays == 30

OrderStatus == {"pending", "accepted", "in_progress", "completed", "cancelled"}

\* A numeric(10,2) column keeps two decimals: the value written is rounded
\* half away from zero to a multiple of 0.01 (10 thousandths).
ToNumeric2(x) == ((x + 5) \div 10) * 10

\* The rows of a table that satisfy a WHERE clause
Select(table, Where(_, _)) == {id \in DOMAIN table : Where(id, table[id])}

\* INSERT ... RETURNING: the serial id is the next row number
Insert(table, row) == Append(table, row)

\* UPDATE table SET <set> WHERE id = <id>: only the columns named in set change
Update(table, id, set) ==
    [i \in DOMAIN table |->
        IF i = id
        THEN [c \in DOMAIN table[i] |-> IF c \in DOMAIN set THEN set[c] ELSE table[i][c]]
        ELSE table[i]]

\* What a handler call does: the error thrown (or OK) and the tables after it
Return(err, o, b) == [err |-> err, orders |-> o, bids |-> b]

Throw(err) == Return(err, orders, bids)

----------------------------------------------------------------------------
(* createOrder *)

createOrder(input) ==
    IF Select(users, LAMBDA id, u : id = input.passenger_id) = {}
    THEN Throw(ErrPassengerNotFound)
    ELSE Return(OK,
                Insert(orders,
                       [passenger_id |-> input.passenger_id,
                        driver_id |-> NULL,
                        pickup_latitude |-> input.pickup_latitude,
                        estimated_fare |-> ToNumeric2(input.estimated_fare),
                        final_fare |-> NULL,
                        status |-> "pending",
                        payment_status |-> "pending",
                        qris_payment_id |-> NoPaymentId]),
                bids)

----------------------------------------------------------------------------
(* updateOrderStatus *)

\* Mutant: a completed order can still be cancelled
validTransitionsCancelCompleted ==
    [pending |-> {"accepted", "cancelled"},
     accepted |-> {"in_progress", "cancelled"},
     in_progress |-> {"completed", "cancelled"},
     completed |-> {"cancelled"},
     cancelled |-> {}]

validTransitions ==
    [pending |-> {"accepted", "cancelled"},
     accepted |-> {"in_progress", "cancelled"},
     in_progress |-> {"completed", "cancelled"},
     completed |-> {},
     cancelled |-> {}]

\* Mutant: a cancellation never refunds
updateValuesNoRefund(order, input) ==
    LET base == [status |-> input.status]
        fare == IF input.status = "completed" /\ input.final_fare # NULL
                THEN [final_fare |-> ToNumeric2(input.final_fare)]
                ELSE <<>>
        paid == IF input.status = "completed"
                THEN [payment_status |-> "paid"]
                ELSE <<>>
    IN  base @@ paid @@ fare

\* Mutant: a cancellation refunds whether or not the order was paid
updateValuesRefundAlways(order, input) ==
    LET base == [status |-> input.status]
        fare == IF input.status = "completed" /\ input.final_fare # NULL
                THEN [final_fare |-> ToNumeric2(input.final_fare)]
                ELSE <<>>
        paid == IF input.status = "completed"
                THEN [payment_status |-> "paid"]
                ELSE <<>>
        refund == IF input.status = "cancelled"
                  THEN [payment_status |-> "refunded"]
                  ELSE <<>>
    IN  base @@ refund @@ paid @@ fare

\* Mutant: a supplied final_fare is written whatever the new status is
updateValuesFareAlways(order, input) ==
    LET base == [status |-> input.status]
        fare == IF input.final_fare # NULL
                THEN [final_fare |-> ToNumeric2(input.final_fare)]
                ELSE <<>>
        paid == IF input.status = "completed"
                THEN [payment_status |-> "paid"]
                ELSE <<>>
        refund == IF input.status = "cancelled" /\ order.payment_status = "paid"
                  THEN [payment_status |-> "refunded"]
                  ELSE <<>>
    IN  base @@ refund @@ paid @@ fare

\* The columns updateOrderStatus writes, computed from the row it read
updateValues(order, input) ==
    LET base == [status |-> input.status]
        fare == IF input.status = "completed" /\ input.final_fare # NULL
                THEN [final_fare |-> ToNumeric2(input.final_fare)]
                ELSE <<>>
        paid == IF input.status = "completed"
                THEN [payment_status |-> "paid"]
                ELSE <<>>
        refund == IF input.status = "cancelled" /\ order.payment_status = "paid"
                  THEN [payment_status |-> "refunded"]
                  ELSE <<>>
    IN  base @@ refund @@ paid @@ fare

updateOrderStatus(input) ==
    LET existingOrder == Select(orders, LAMBDA id, o : id = input.order_id)
    IN  IF existingOrder = {}
        THEN Throw(ErrOrderIdNotFound)
        ELSE LET order == orders[input.order_id]
             IN  IF input.status \notin validTransitions[order.status]
                 THEN Throw(ErrInvalidTransition)
                 ELSE Return(OK,
                             Update(orders, input.order_id, updateValues(order, input)),
                             bids)

----------------------------------------------------------------------------
(* acceptBid *)

\* Mutant: the accepted amount is not written to final_fare
acceptBidSetNoFare(bid) ==
    [status |-> "accepted", driver_id |-> bid.driver_id]

\* The columns acceptBid writes
acceptBidSet(bid) ==
    [status |-> "accepted",
     driver_id |-> bid.driver_id,
     final_fare |-> ToNumeric2(bid.bid_amount)]

\* Mutant: the status of the order is checked before the bid is looked up
acceptBidOnStatusFirst(ordersTable, bidsTable, input) ==
    LET found == Select(ordersTable,
                        LAMBDA id, o : id = input.order_id
                                       /\ o.passenger_id = input.passenger_id)
        bidRows == Select(bidsTable,
                          LAMBDA id, b : id = input.bid_id
                                         /\ b.order_id = input.order_id)
    IN  IF found = {}
        THEN Return(ErrOrderNotOwned, ordersTable, bidsTable)
        ELSE IF ordersTable[input.order_id].status # "pending"
        THEN Return(ErrNotPending, ordersTable, bidsTable)
        ELSE IF bidRows = {}
        THEN Return(ErrBidNotFound, ordersTable, bidsTable)
        ELSE Return(OK,
                    Update(ordersTable, input.order_id,
                           [status |-> "accepted",
                            driver_id |-> bidsTable[input.bid_id].driver_id,
                            final_fare |-> bidsTable[input.bid_id].bid_amount]),
                    bidsTable)

\* Mutant: the status of the order is not checked
acceptBidOnAnyStatus(ordersTable, bidsTable, input) ==
    LET found == Select(ordersTable,
                        LAMBDA id, o : id = input.order_id
                                       /\ o.passenger_id = input.passenger_id)
        bidRows == Select(bidsTable,
                          LAMBDA id, b : id = input.bid_id
                                         /\ b.order_id = input.order_id)
    IN  IF found = {}
        THEN Return(ErrOrderNotOwned, ordersTable, bidsTable)
        ELSE IF bidRows = {}
        THEN Return(ErrBidNotFound, ordersTable, bidsTable)
        ELSE Return(OK,
                    Update(ordersTable, input.order_id,
                           [status |-> "accepted",
                            driver_id |-> bidsTable[input.bid_id].driver_id,
                            final_fare |-> bidsTable[input.bid_id].bid_amount]),
                    bidsTable)

\* acceptBid against given orders and bids tables
acceptBidOn(ordersTable, bidsTable, input) ==
    LET found == Select(ordersTable,
                        LAMBDA id, o : id = input.order_id
                                       /\ o.passenger_id = input.passenger_id)
        bidRows == Select(bidsTable,
                          LAMBDA id, b : id = input.bid_id
                                         /\ b.order_id = input.order_id)
    IN  IF found = {}
        THEN Return(ErrOrderNotOwned, ordersTable, bidsTable)
        ELSE IF bidRows = {}
        THEN Return(ErrBidNotFound, ordersTable, bidsTable)
        ELSE IF ordersTable[input.order_id].status # "pending"
        THEN Return(ErrNotPending, ordersTable, bidsTable)
        ELSE Return(OK,
                    Update(ordersTable, input.order_id,
                           acceptBidSet(bidsTable[input.bid_id])),
                    bidsTable)

acceptBid(input) == acceptBidOn(orders, bids, input)

----------------------------------------------------------------------------
(* createDriverBid *)

\* users INNER JOIN driver_profiles WHERE users.id = driver_id AND role = 'driver'
driverData(driver_id) ==
    {p \in DOMAIN profiles :
        /\ profiles[p].user_id = driver_id
        /\ driver_id \in DOMAIN users
        /\ users[driver_id].role = "driver"}

\* Mutant: a subscription that expires at this very instant still counts
bidSubscriptionInactiveBefore(profile) ==
    profile.subscription_expires_at = NULL \/ profile.subscription_expires_at < now

\* !subscription_expires_at || subscription_expires_at <= now
bidSubscriptionInactive(profile) ==
    profile.subscription_expires_at = NULL \/ profile.subscription_expires_at <= now

\* Mutant: only a completed or cancelled order is closed for bidding
bidOrderClosedWhenTerminal(order) == order.status \in {"completed", "cancelled"}

\* order[0].status !== 'pending'
bidOrderClosed(order) == order.status # "pending"

createDriverBid(input) ==
    IF Select(orders, LAMBDA id, o : id = input.order_id) = {}
    THEN Throw(ErrOrderNotFound)
    ELSE IF bidOrderClosed(orders[input.order_id])
    THEN Throw(ErrNotBiddable)
    ELSE IF driverData(input.driver_id) = {}
    THEN Throw(ErrDriverInvalid)
    ELSE LET driverProfile ==
                 profiles[CHOOSE p \in driverData(input.driver_id) :
                             \A q \in driverData(input.driver_id) : p <= q]
         IN  IF ~driverProfile.is_available
             THEN Throw(ErrDriverUnavailable)
             ELSE IF bidSubscriptionInactive(driverProfile)
             THEN Throw(ErrSubscriptionInactive)
             ELSE Return(OK,
                         orders,
                         Insert(bids,
                                [order_id |-> input.order_id,
                                 driver_id |-> input.driver_id,
                                 bid_amount |-> ToNumeric2(input.bid_amount),
                                 estimated_arrival_minutes |->
                                     input.estimated_arrival_minutes]))

----------------------------------------------------------------------------
(* getOrderBids *)

\* ORDER BY on two keys: a precedes b
Before(a, b) == a[1] < b[1] \/ (a[1] = b[1] /\ a[2] < b[2])

\* Every list an ORDER BY (or a sort) may return for the rows S with sort keys
\* key[id]: the order of rows with equal keys is not determined.
RECURSIVE OrderBy(_, _)
OrderBy(S, key) ==
    IF S = {}
    THEN {<<>>}
    ELSE UNION {{<<m>> \o rest : rest \in OrderBy(S \ {m}, key)} :
                m \in {x \in S : \A y \in S : ~Before(key[y], key[x])}}

\* Mutant: the bids are ordered by amount alone
bidOrderKeyAmount(id) == <<bids[id].bid_amount, 0>>

\* ORDER BY asc(bid_amount), asc(estimated_arrival_minutes)
bidOrderKey(id) == <<bids[id].bid_amount, bids[id].estimated_arrival_minutes>>

\* A returned row: the id with the columns
Row(table, id) == [id |-> id] @@ table[id]

\* The error thrown, and the lists of bid rows the query may return
getOrderBids(orderId) ==
    IF Select(orders, LAMBDA id, o : id = orderId) = {}
    THEN [err |-> ErrOrderIdNotFound, results |-> {}]
    ELSE IF orders[orderId].status # "pending"
    THEN [err |-> ErrBidsNotPending, results |-> {}]
    ELSE LET rows == Select(bids, LAMBDA id, b : b.order_id = orderId)
             key == [id \in rows |-> bidOrderKey(id)]
         IN  [err |-> OK,
              results |-> {[k \in DOMAIN l |-> Row(bids, l[k])] : l \in OrderBy(rows, key)}]

----------------------------------------------------------------------------
(* processQrisPayment *)

\* Math.abs(amount - expected) > 0.01
Tolerance == 10

Abs(x) == IF x < 0 THEN -x ELSE x

\* 2^k modulo 1000
RECURSIVE Pow2Mod(_)
Pow2Mod(k) == IF k = 0 THEN 1 ELSE (2 * Pow2Mod(k - 1)) % 1000

\* Bits after the binary point of a double between 16 and 32
FractionBits == 48

\* A JavaScript number is the IEEE 754 double nearest to the decimal it is
\* read from (parseFloat of a numeric column, the amount of the request).
\* For x thousandths, 16 <= x / 1000 < 32, the double is a multiple of 2^-48:
\* FloatError(x) is that double minus x / 1000, counted in units of
\* 2^-48 / 1000 (no tie occurs: 2^48 * x is never an odd multiple of 500).
FloatError(x) ==
    LET r == ((x % 1000) * Pow2Mod(FractionBits)) % 1000
    IN  IF r < 500 THEN -r ELSE 1000 - r

\* Math.abs(amount - expectedAmount) > 0.01 on doubles: the subtraction of
\* two doubles this close is exact, and the double 0.01 exceeds 0.01 by
\* less than one unit of FloatError.
exceedsTolerance(amount, expected) ==
    LET d == amount - expected
        e == FloatError(amount) - FloatError(expected)
    IN  \/ Abs(d) > Tolerance
        \/ Abs(d) = Tolerance /\ (IF d < 0 THEN -e ELSE e) > 0

\* final_fare if it is set, and estimated_fare otherwise
expectedAmount(order) ==
    IF order.final_fare # NULL THEN order.final_fare ELSE order.estimated_fare

\* Mutant: the payment also records the paid amount as the final fare
paymentSetWithFare(input) ==
    [payment_status |-> "paid", qris_payment_id |-> <<now, input.order_id>>,
     final_fare |-> ToNumeric2(input.amount)]

\* The columns processQrisPayment writes: QRIS_${Date.now()}_${order_id}
paymentSet(input) ==
    [payment_status |-> "paid", qris_payment_id |-> <<now, input.order_id>>]

\* Mutant: the order is looked up by id alone, and its owner is checked
\* after its status
processQrisPaymentOnStatusFirst(ordersTable, input) ==
    IF Select(ordersTable, LAMBDA id, o : id = input.order_id) = {}
    THEN Return(ErrPayNotOwned, ordersTable, bids)
    ELSE LET order == ordersTable[input.order_id]
         IN  IF order.status \notin {"accepted", "in_progress", "completed"}
             THEN Return(ErrNotPayable, ordersTable, bids)
             ELSE IF order.passenger_id # input.passenger_id
             THEN Return(ErrPayNotOwned, ordersTable, bids)
             ELSE IF order.payment_status = "paid"
             THEN Return(ErrAlreadyPaid, ordersTable, bids)
             ELSE IF exceedsTolerance(input.amount, expectedAmount(order))
             THEN Return(ErrAmountMismatch, ordersTable, bids)
             ELSE Return(OK,
                         Update(ordersTable, input.order_id,
                                [payment_status |-> "paid",
                                 qris_payment_id |-> <<now, input.order_id>>]),
                         bids)

\* Mutant: an order that is paid can be paid again
processQrisPaymentOnPaidAgain(ordersTable, input) ==
    LET existingOrders == Select(ordersTable,
                                 LAMBDA id, o : id = input.order_id
                                                /\ o.passenger_id = input.passenger_id)
    IN  IF existingOrders = {}
        THEN Return(ErrPayNotOwned, ordersTable, bids)
        ELSE LET order == ordersTable[input.order_id]
             IN  IF order.status \notin {"accepted", "in_progress", "completed"}
                 THEN Return(ErrNotPayable, ordersTable, bids)
                 ELSE IF exceedsTolerance(input.amount, expectedAmount(order))
                 THEN Return(ErrAmountMismatch, ordersTable, bids)
                 ELSE Return(OK,
                             Update(ordersTable, input.order_id, paymentSet(input)),
                             bids)

\* Mutant: the amount is compared before the payment status is looked at
processQrisPaymentOnAmountFirst(ordersTable, input) ==
    LET existingOrders == Select(ordersTable,
                                 LAMBDA id, o : id = input.order_id
                                                /\ o.passenger_id = input.passenger_id)
    IN  IF existingOrders = {}
        THEN Return(ErrPayNotOwned, ordersTable, bids)
        ELSE LET order == ordersTable[input.order_id]
             IN  IF order.status \notin {"accepted", "in_progress", "completed"}
                 THEN Return(ErrNotPayable, ordersTable, bids)
                 ELSE IF exceedsTolerance(input.amount, expectedAmount(order))
                 THEN Return(ErrAmountMismatch, ordersTable, bids)
                 ELSE IF order.payment_status = "paid"
                 THEN Return(ErrAlreadyPaid, ordersTable, bids)
                 ELSE Return(OK,
                             Update(ordersTable, input.order_id, paymentSet(input)),
                             bids)

\* processQrisPayment against a given orders table
processQrisPaymentOn(ordersTable, input) ==
    LET existingOrders == Select(ordersTable,
                                 LAMBDA id, o : id = input.order_id
                                                /\ o.passenger_id = input.passenger_id)
    IN  IF existingOrders = {}
        THEN Return(ErrPayNotOwned, ordersTable, bids)
        ELSE LET order == ordersTable[input.order_id]
             IN  IF order.status \notin {"accepted", "in_progress", "completed"}
                 THEN Return(ErrNotPayable, ordersTable, bids)
                 ELSE IF order.payment_status = "paid"
                 THEN Return(ErrAlreadyPaid, ordersTable, bids)
                 ELSE IF exceedsTolerance(input.amount, expectedAmount(order))
                 THEN Return(ErrAmountMismatch, ordersTable, bids)
                 ELSE Return(OK,
                             Update(ordersTable, input.order_id, paymentSet(input)),
                             bids)

processQrisPayment(input) == processQrisPaymentOn(orders, input)

----------------------------------------------------------------------------
(* getAvailableOrders *)

\* Metres per hundredth of a degree of latitude: 6371 km * pi / 180 / 100
MetresPerStep == 1112

\* Great-circle distance in metres of two points of one meridian
calculateDistance(lat1, lat2) == Abs(lat2 - lat1) * MetresPerStep

\* The 20 km radius of getAvailableOrders, in metres
AvailableRadius == 20000

\* Mutant: only a missing subscription empties the list
ordersSubscriptionInactiveNullOnly(profile) ==
    profile.subscription_expires_at = NULL

\* !subscription_expires_at || subscription_expires_at < now
ordersSubscriptionInactive(profile) ==
    profile.subscription_expires_at = NULL \/ profile.subscription_expires_at < now

\* The error thrown, and the lists of order ids the query may return
getAvailableOrders(driverId) ==
    LET driverProfile == Select(profiles, LAMBDA id, p : p.user_id = driverId)
    IN  IF driverProfile = {}
        THEN [err |-> ErrProfileNotFound, results |-> {}]
        ELSE LET profile == profiles[CHOOSE p \in driverProfile :
                                        \A q \in driverProfile : p <= q]
                 candidates == Select(orders,
                                      LAMBDA id, o : o.status = "pending"
                                                     /\ o.driver_id = NULL)
                 distance == [id \in candidates |->
                                 calculateDistance(profile.current_latitude,
                                                   orders[id].pickup_latitude)]
                 near == {id \in candidates : distance[id] <= AvailableRadius}
             IN  IF ordersSubscriptionInactive(profile)
                 THEN [err |-> OK, results |-> {<<>>}]
                 ELSE IF profile.current_latitude = NULL
                         \/ profile.current_longitude = NULL
                 THEN [err |-> OK,
                       results |-> OrderBy(candidates, [id \in candidates |-> <<0, 0>>])]
                 ELSE [err |-> OK,
                       results |-> OrderBy(near, [id \in near |-> <<distance[id], 0>>])]

----------------------------------------------------------------------------
(* createDriverSubscription, updateDriverLocation, getNearbyDrivers *)

\* What a driver handler does: the error thrown (or OK) and the tables after it
DriverReturn(err, p, s) == [err |-> err, profiles |-> p, subscriptions |-> s]

DriverThrow(err) == DriverReturn(err, profiles, subscriptions)

\* UPDATE driver_profiles SET <set> WHERE user_id = <driver_id>
UpdateProfileOf(driver_id, set) ==
    [i \in DOMAIN profiles |->
        IF profiles[i].user_id = driver_id
        THEN Update(profiles, i, set)[i]
        ELSE profiles[i]]

\* Mutant: the profile takes the new expiry only if it had none
createDriverSubscriptionFirstOnly(input) ==
    IF Select(users, LAMBDA id, u : id = input.driver_id) = {}
    THEN DriverThrow(ErrDriverNotFound)
    ELSE IF users[input.driver_id].role # "driver"
    THEN DriverThrow(ErrNotADriver)
    ELSE IF Select(profiles, LAMBDA id, p : p.user_id = input.driver_id) = {}
    THEN DriverThrow(ErrProfileNotFound)
    ELSE LET expiryDate == now + SubscriptionDays
         IN  DriverReturn(OK,
                 [i \in DOMAIN profiles |->
                     IF profiles[i].user_id = input.driver_id
                        /\ profiles[i].subscription_expires_at = NULL
                     THEN Update(profiles, i, [subscription_expires_at |-> expiryDate])[i]
                     ELSE profiles[i]],
                 Insert(subscriptions,
                        [driver_id |-> input.driver_id,
                         subscription_type |-> input.subscription_type,
                         amount |-> ToNumeric2(input.amount),
                         payment_status |-> "pending",
                         starts_at |-> now,
                         expires_at |-> expiryDate]))

createDriverSubscription(input) ==
    IF Select(users, LAMBDA id, u : id = input.driver_id) = {}
    THEN DriverThrow(ErrDriverNotFound)
    ELSE IF users[input.driver_id].role # "driver"
    THEN DriverThrow(ErrNotADriver)
    ELSE IF Select(profiles, LAMBDA id, p : p.user_id = input.driver_id) = {}
    THEN DriverThrow(ErrProfileNotFound)
    ELSE LET expiryDate == now + SubscriptionDays
         IN  DriverReturn(OK,
                 UpdateProfileOf(input.driver_id,
                                 [subscription_expires_at |-> expiryDate]),
                 Insert(subscriptions,
                        [driver_id |-> input.driver_id,
                         subscription_type |-> input.subscription_type,
                         amount |-> ToNumeric2(input.amount),
                         payment_status |-> "pending",
                         starts_at |-> now,
                         expires_at |-> expiryDate]))

\* Mutant: a subscription that expires at this very instant still counts
locationSubscriptionExpiredBefore(profile) ==
    profile.subscription_expires_at # NULL /\ profile.subscription_expires_at < now

\* subscription_expires_at && subscription_expires_at <= now
locationSubscriptionExpired(profile) ==
    profile.subscription_expires_at # NULL /\ profile.subscription_expires_at <= now

\* Mutant: the location update also clears the subscription expiry
updateDriverLocationResetExpiry(input) ==
    LET driverProfiles == driverData(input.driver_id)
    IN  IF driverProfiles = {}
        THEN DriverThrow(ErrDriverNotFound)
        ELSE LET driverProfile ==
                     profiles[CHOOSE p \in driverProfiles :
                                 \A q \in driverProfiles : p <= q]
             IN  IF locationSubscriptionExpired(driverProfile)
                 THEN DriverThrow(ErrSubscriptionExpired)
                 ELSE DriverReturn(OK,
                          UpdateProfileOf(input.driver_id,
                                          [current_latitude |-> input.latitude,
                                           current_longitude |-> input.longitude,
                                           is_available |-> input.is_available,
                                           subscription_expires_at |-> NULL]),
                          subscriptions)

updateDriverLocation(input) ==
    LET driverProfiles == driverData(input.driver_id)
    IN  IF driverProfiles = {}
        THEN DriverThrow(ErrDriverNotFound)
        ELSE LET driverProfile ==
                     profiles[CHOOSE p \in driverProfiles :
                                 \A q \in driverProfiles : p <= q]
             IN  IF locationSubscriptionExpired(driverProfile)
                 THEN DriverThrow(ErrSubscriptionExpired)
                 ELSE DriverReturn(OK,
                          UpdateProfileOf(input.driver_id,
                                          [current_latitude |-> input.latitude,
                                           current_longitude |-> input.longitude,
                                           is_available |-> input.is_available]),
                          subscriptions)

\* 6371 * acos(...): the distance in metres from the query point to the
\* position of a profile, both on the meridian of longitude 0
distanceFormula(input, profile) ==
    calculateDistance(input.latitude, profile.current_latitude)

\* The lists of profile rows the query may return
getNearbyDrivers(input) ==
    LET results ==
            Select(profiles,
                   LAMBDA id, p :
                       /\ p.is_available = TRUE
                       /\ p.user_id \in DOMAIN users
                       /\ users[p.user_id].role = "driver"
                       /\ p.current_latitude # NULL
                       /\ p.current_longitude # NULL
                       /\ p.subscription_expires_at # NULL
                       /\ p.subscription_expires_at >= now
                       /\ distanceFormula(input, p) <= input.radius_km * 1000)
        lists == OrderBy(results,
                         [id \in results |-> <<distanceFormula(input, profiles[id]), 0>>])
    IN  [err |-> OK,
         results |-> {[i \in DOMAIN l |-> Row(profiles, l[i])] : l \in lists}]

----------------------------------------------------------------------------
(* registerUser, createDriverProfile *)

\* What a registration handler does: the error thrown (or OK) and the
\* tables after it
UserReturn(err, u, p) == [err |-> err, users |-> u, profiles |-> p]

UserThrow(err) == UserReturn(err, users, profiles)

\* A row of driver_profiles as it is inserted: is_available false, and the
\* columns that are not given are NULL
NewProfile(user_id, license_number, vehicle_type, vehicle_plate) ==
    [user_id |-> user_id,
     license_number |-> license_number,
     vehicle_type |-> vehicle_type,
     vehicle_plate |-> vehicle_plate,
     is_available |-> FALSE,
     current_latitude |-> NULL,
     current_longitude |-> NULL,
     subscription_expires_at |-> NULL]

\* Mutant: the profile of a new driver is available at once
registerUserProfileAvailable(user_id) ==
    [NewProfile(user_id, "", "", "") EXCEPT !.is_available = TRUE]

\* The profile registerUser inserts for a driver
registerUserProfile(user_id) == NewProfile(user_id, "", "", "")

registerUser(input) ==
    IF Select(users, LAMBDA id, u : u.email = input.email) # {}
    THEN UserThrow(ErrEmailExists)
    ELSE LET result == Insert(users, [email |-> input.email, role |-> input.role])
             user_id == Len(result)
         IN  IF input.role = "driver"
             THEN UserReturn(OK, result, Insert(profiles, registerUserProfile(user_id)))
             ELSE UserReturn(OK, result, profiles)

createDriverProfile(input) ==
    IF Select(users, LAMBDA id, u : id = input.user_id) = {}
    THEN UserThrow(ErrUserNotFound)
    ELSE IF users[input.user_id].role # "driver"
    THEN UserThrow(ErrMustBeDriver)
    ELSE IF Select(profiles, LAMBDA id, p : p.user_id = input.user_id) # {}
    THEN UserThrow(ErrProfileExists)
    ELSE UserReturn(OK, users,
                    Insert(profiles,
                           NewProfile(input.user_id, input.license_number,
                                      input.vehicle_type, input.vehicle_plate)))

----------------------------------------------------------------------------
(* Handler calls, one at a time *)

Returned(op, err) == [op |-> op, err |-> err]

\* A mutation of orders and bids runs to its end
Mutation(op, r) ==
    /\ orders' = r.orders
    /\ bids' = r.bids
    /\ last' = Returned(op, r.err)
    /\ UNCHANGED <<users, profiles, subscriptions, now, calls>>

\* A query changes no table
Query(op, r) ==
    /\ last' = Returned(op, r.err)
    /\ UNCHANGED <<users, profiles, orders, bids, subscriptions, now, calls>>

\* A mutation of driver_profiles and driver_subscriptions runs to its end
DriverMutation(op, r) ==
    /\ profiles' = r.profiles
    /\ subscriptions' = r.subscriptions
    /\ last' = Returned(op, r.err)
    /\ UNCHANGED <<users, orders, bids, now, calls>>

CreateOrder(input) == Mutation("createOrder", createOrder(input))

CreateDriverBid(input) == Mutation("createDriverBid", createDriverBid(input))

AcceptBid(input) == Mutation("acceptBid", acceptBid(input))

UpdateOrderStatus(input) == Mutation("updateOrderStatus", updateOrderStatus(input))

ProcessQrisPayment(input) == Mutation("processQrisPayment", processQrisPayment(input))

GetOrderBids(orderId) == Query("getOrderBids", getOrderBids(orderId))

GetAvailableOrders(driverId) == Query("getAvailableOrders", getAvailableOrders(driverId))

\* A mutation of users and driver_profiles runs to its end
UserMutation(op, r) ==
    /\ users' = r.users
    /\ profiles' = r.profiles
    /\ last' = Returned(op, r.err)
    /\ UNCHANGED <<orders, bids, subscriptions, now, calls>>

RegisterUser(input) == UserMutation("registerUser", registerUser(input))

CreateDriverProfile(input) ==
    UserMutation("createDriverProfile", createDriverProfile(input))

CreateDriverSubscription(input) ==
    DriverMutation("createDriverSubscription", createDriverSubscription(input))

UpdateDriverLocation(input) ==
    DriverMutation("updateDriverLocation", updateDriverLocation(input))

GetNearbyDrivers(input) == Query("getNearbyDrivers", getNearbyDrivers(input))

\* Time passes: new Date() grows.  The clock goes from the day of
\* registration to the eve of the first expiry, then day by day.
Tick ==
    /\ now < MaxNow
    /\ now' = IF now < SubscriptionDays - 1 THEN SubscriptionDays - 1 ELSE now + 1
    /\ UNCHANGED <<users, profiles, orders, bids, subscriptions, last, calls>>

----------------------------------------------------------------------------
(* The store the order handlers start from, on day 31: two passengers and  *)
(* five drivers registered by registerUser, subscriptions bought by        *)
(* createDriverSubscription on days 0, 1 and 2 (30 days each), positions   *)
(* and availability reported by updateDriverLocation.                      *)

FixtureDay == SubscriptionDays + 1

FixtureUsers ==
    <<[email |-> "p1", role |-> "passenger"],
      [email |-> "p2", role |-> "passenger"],
      [email |-> "d3", role |-> "driver"],
      [email |-> "d4", role |-> "driver"],
      [email |-> "d5", role |-> "driver"],
      [email |-> "d6", role |-> "driver"],
      [email |-> "d7", role |-> "driver"]>>

Profile(user_id, available, lat, expires) ==
    [user_id |-> user_id,
     license_number |-> "",
     vehicle_type |-> "",
     vehicle_plate |-> "",
     is_available |-> available,
     current_latitude |-> lat,
     current_longitude |-> IF lat = NULL THEN NULL ELSE 0,
     subscription_expires_at |-> expires]

\* Driver 3 is eligible; the subscription of driver 4 expires this very day,
\* that of driver 5 expired the day before, driver 6 never bought one and
\* driver 7 is not available.
FixtureProfiles ==
    <<Profile(3, TRUE, 0, 2 + SubscriptionDays),
      Profile(4, TRUE, 0, 1 + SubscriptionDays),
      Profile(5, TRUE, 0, 0 + SubscriptionDays),
      Profile(6, TRUE, 0, NULL),
      Profile(7, FALSE, 0, 2 + SubscriptionDays)>>

\* No call is in flight
NoCalls == <<>>

FixtureStore ==
    /\ users = FixtureUsers
    /\ profiles = FixtureProfiles
    /\ orders = <<>>
    /\ bids = <<>>
    /\ subscriptions = <<>>
    /\ now = FixtureDay
    /\ last = Returned("none", OK)

FixtureInit == FixtureStore /\ calls = NoCalls

\* A user id no row has
NoUser == Len(FixtureUsers) + 2

UserIds == DOMAIN FixtureUsers \cup {NoUser}

----------------------------------------------------------------------------
(* Spec: the life of one order after the other, under every handler that *)
(* reads or writes orders, one call at a time                             *)

OrderInputs ==
    [passenger_id : {1, NoUser}, pickup_latitude : {0}, estimated_fare : {25000}]

BidInputs ==
    [order_id : 1..(MaxOrders + 1), driver_id : UserIds,
     bid_amount : {23005}, estimated_arrival_minutes : {10}]

AcceptInputs ==
    [order_id : 1..(MaxOrders + 1), bid_id : 1..(MaxBids + 1), passenger_id : {1, 2}]

StatusInputs ==
    [order_id : 1..(MaxOrders + 1), status : OrderStatus, final_fare : {NULL, 30000}]

PaymentInputs ==
    [order_id : 1..(MaxOrders + 1), passenger_id : {1, 2},
     amount : {23015, 25000, 30000}]

Init == FixtureInit

Next ==
    \/ \E input \in OrderInputs : Len(orders) < MaxOrders /\ CreateOrder(input)
    \/ \E input \in BidInputs : Len(bids) < MaxBids /\ CreateDriverBid(input)
    \/ \E input \in AcceptInputs : AcceptBid(input)
    \/ \E input \in StatusInputs : UpdateOrderStatus(input)
    \/ \E input \in PaymentInputs : ProcessQrisPayment(input)
    \/ \E orderId \in 1..(MaxOrders + 1) : GetOrderBids(orderId)
    \/ \E driverId \in UserIds : GetAvailableOrders(driverId)

Spec == Init /\ [][Next]_vars

----------------------------------------------------------------------------
(* SpecBid: bidding on several orders of two passengers, with bids that   *)
(* differ in amount and in arrival time                                    *)

BidOrderInputs ==
    [passenger_id : {1}, pickup_latitude : {0}, estimated_fare : {25000}]

BidBidInputs ==
    [order_id : 1..(BidMaxOrders + 1), driver_id : UserIds,
     bid_amount : {23000}, estimated_arrival_minutes : {10, 15}]
    \cup [order_id : 1..(BidMaxOrders + 1), driver_id : UserIds,
          bid_amount : {23005}, estimated_arrival_minutes : {10}]

BidAcceptInputs ==
    [order_id : 1..(BidMaxOrders + 1), bid_id : 1..(BidMaxBids + 1),
     passenger_id : {1, 2}]

NextBid ==
    \/ \E input \in BidOrderInputs : Len(orders) < BidMaxOrders /\ CreateOrder(input)
    \/ \E input \in BidBidInputs : Len(bids) < BidMaxBids /\ CreateDriverBid(input)
    \/ \E input \in BidAcceptInputs : AcceptBid(input)
    \/ \E orderId \in 1..(BidMaxOrders + 1) : GetOrderBids(orderId)
    \/ \E driverId \in UserIds : GetAvailableOrders(driverId)

SpecBid == Init /\ [][NextBid]_vars

----------------------------------------------------------------------------
(* SpecRace: acceptBid calls that run concurrently.  A call gives way to   *)
(* the other calls at each await: after its SELECT on orders, after its    *)
(* SELECT on driver_bids, and it checks the status of the order row it     *)
(* read first just before it sends its UPDATE.                             *)

Callers == 1..NumCallers

IdleCall == [pc |-> "idle"]

RaceInit == FixtureStore /\ calls = [c \in Callers |-> IdleCall]

RaceOrderInputs ==
    [passenger_id : {1}, pickup_latitude : {0}, estimated_fare : {25000}]

RaceBidInputs ==
    [order_id : 1..RaceMaxOrders, driver_id : {3},
     bid_amount : {23000, 24000}, estimated_arrival_minutes : {10}]

RaceAcceptInputs ==
    [order_id : 1..RaceMaxOrders, bid_id : 1..RaceMaxBids, passenger_id : {1, 2}]

\* A call in flight throws: it ends and the tables stay as they are
CallThrows(c, op, err) ==
    /\ calls' = [calls EXCEPT ![c] = IdleCall]
    /\ last' = Returned(op, err)
    /\ UNCHANGED <<users, profiles, orders, bids, subscriptions, now>>

\* await db.select().from(ordersTable).where(id, passenger_id)
AcceptSelectOrder(c, input) ==
    /\ calls[c].pc = "idle"
    /\ LET found == Select(orders,
                           LAMBDA id, o : id = input.order_id
                                          /\ o.passenger_id = input.passenger_id)
       IN  IF found = {}
           THEN CallThrows(c, "acceptBid", ErrOrderNotOwned)
           ELSE /\ calls' = [calls EXCEPT ![c] =
                                [pc |-> "order", input |-> input,
                                 order |-> orders[input.order_id]]]
                /\ UNCHANGED <<users, profiles, orders, bids, subscriptions, now, last>>

\* await db.select().from(driverBidsTable).where(id, order_id)
AcceptSelectBid(c) ==
    /\ calls[c].pc = "order"
    /\ LET input == calls[c].input
           bidRows == Select(bids,
                             LAMBDA id, b : id = input.bid_id
                                            /\ b.order_id = input.order_id)
       IN  IF bidRows = {}
           THEN CallThrows(c, "acceptBid", ErrBidNotFound)
           ELSE /\ calls' = [calls EXCEPT ![c] =
                                [pc |-> "bid", input |-> input,
                                 order |-> calls[c].order,
                                 bid |-> bids[input.bid_id]]]
                /\ UNCHANGED <<users, profiles, orders, bids, subscriptions, now, last>>

\* if (order.status !== 'pending') throw; await db.update(ordersTable)
AcceptUpdate(c) ==
    /\ calls[c].pc = "bid"
    /\ IF calls[c].order.status # "pending"
       THEN CallThrows(c, "acceptBid", ErrNotPending)
       ELSE /\ orders' = Update(orders, calls[c].input.order_id,
                                acceptBidSet(calls[c].bid))
            /\ calls' = [calls EXCEPT ![c] = IdleCall]
            /\ last' = Returned("acceptBid", OK)
            /\ UNCHANGED <<users, profiles, bids, subscriptions, now>>

NextRace ==
    \/ \E input \in RaceOrderInputs :
        /\ Len(orders) < RaceMaxOrders
        /\ LET r == createOrder(input)
           IN  /\ orders' = r.orders
               /\ last' = Returned("createOrder", r.err)
               /\ UNCHANGED <<users, profiles, bids, subscriptions, now, calls>>
    \/ \E input \in RaceBidInputs :
        /\ Len(bids) < RaceMaxBids
        /\ LET r == createDriverBid(input)
           IN  /\ bids' = r.bids
               /\ last' = Returned("createDriverBid", r.err)
               /\ UNCHANGED <<users, profiles, orders, subscriptions, now, calls>>
    \/ \E c \in Callers, input \in RaceAcceptInputs : AcceptSelectOrder(c, input)
    \/ \E c \in Callers : AcceptSelectBid(c)
    \/ \E c \in Callers : AcceptUpdate(c)

SpecRace == RaceInit /\ [][NextRace]_vars

----------------------------------------------------------------------------
(* SpecDrivers: the drivers from their registration on day 0.  A passenger *)
(* and three drivers are registered (registerUser); drivers 2 and 3 have   *)
(* the profile registerUser inserts: not available, no position, no        *)
(* subscription.  The registerUser call of driver 4 ended after its insert *)
(* into users, before its insert into driver_profiles.                     *)

DriversUsers ==
    <<[email |-> "p1", role |-> "passenger"],
      [email |-> "d2", role |-> "driver"],
      [email |-> "d3", role |-> "driver"],
      [email |-> "d4", role |-> "driver"]>>

DriversProfiles == <<Profile(2, FALSE, NULL, NULL), Profile(3, FALSE, NULL, NULL)>>

DriversInit ==
    /\ users = DriversUsers
    /\ profiles = DriversProfiles
    /\ orders = <<>>
    /\ bids = <<>>
    /\ subscriptions = <<>>
    /\ now = 0
    /\ last = Returned("none", OK)
    /\ calls = NoCalls

SubscriptionInputs ==
    [driver_id : 1..(Len(DriversUsers) + 1), subscription_type : {"monthly"},
     amount : {50000}]

LocationInputs ==
    [driver_id : 1..(Len(DriversUsers) + 1), latitude : {4, 8}, longitude : {0},
     is_available : BOOLEAN]

NearbyInputs == [latitude : {0}, longitude : {0}, radius_km : {5, 10}]

NextDrivers ==
    \/ \E input \in SubscriptionInputs :
        Len(subscriptions) < MaxSubscriptions /\ CreateDriverSubscription(input)
    \/ \E input \in LocationInputs : UpdateDriverLocation(input)
    \/ \E input \in NearbyInputs : GetNearbyDrivers(input)
    \/ Tick

SpecDrivers == DriversInit /\ [][NextDrivers]_vars

----------------------------------------------------------------------------
(* SpecAvail: orders at several distances from the drivers, seen through   *)
(* getAvailableOrders.  The drivers are those of the fixture, except that  *)
(* driver 7 bought a subscription and never reported a position.           *)

AvailProfiles ==
    <<Profile(3, TRUE, 0, 2 + SubscriptionDays),
      Profile(4, TRUE, 0, 1 + SubscriptionDays),
      Profile(5, TRUE, 0, 0 + SubscriptionDays),
      Profile(6, TRUE, 0, NULL),
      Profile(7, FALSE, NULL, 2 + SubscriptionDays)>>

AvailInit ==
    /\ users = FixtureUsers
    /\ profiles = AvailProfiles
    /\ orders = <<>>
    /\ bids = <<>>
    /\ subscriptions = <<>>
    /\ now = FixtureDay
    /\ last = Returned("none", OK)
    /\ calls = NoCalls

\* Pickup points 0 km, 18.9 km and 20.02 km north of the drivers
AvailOrderInputs ==
    [passenger_id : {1}, pickup_latitude : {0, 17, 18}, estimated_fare : {25000}]

AvailBidInputs ==
    [order_id : 1..AvailMaxOrders, driver_id : {3},
     bid_amount : {23000}, estimated_arrival_minutes : {10}]

AvailAcceptInputs ==
    [order_id : 1..AvailMaxOrders, bid_id : 1..AvailMaxBids, passenger_id : {1}]

AvailStatusInputs ==
    [order_id : 1..AvailMaxOrders, status : {"cancelled"}, final_fare : {NULL}]

NextAvail ==
    \/ \E input \in AvailOrderInputs : Len(orders) < AvailMaxOrders /\ CreateOrder(input)
    \/ \E input \in AvailBidInputs : Len(bids) < AvailMaxBids /\ CreateDriverBid(input)
    \/ \E input \in AvailAcceptInputs : AcceptBid(input)
    \/ \E input \in AvailStatusInputs : UpdateOrderStatus(input)
    \/ \E driverId \in UserIds : GetAvailableOrders(driverId)

SpecAvail == AvailInit /\ [][NextAvail]_vars

----------------------------------------------------------------------------
(* SpecPay: the fare and the payment of an order, with amounts of three    *)
(* decimals and amounts that are 0.01 off the fare                         *)

PayOrderInputs ==
    [passenger_id : {1}, pickup_latitude : {0}, estimated_fare : {25000}]

PayBidInputs ==
    [order_id : 1..PayMaxOrders, driver_id : {3},
     bid_amount : {23005}, estimated_arrival_minutes : {10}]

PayAcceptInputs ==
    [order_id : 1..PayMaxOrders, bid_id : 1..PayMaxBids, passenger_id : {1}]

PayStatusInputs ==
    [order_id : 1..(PayMaxOrders + 1), status : OrderStatus, final_fare : {NULL, 30005}]

PayPaymentInputs ==
    [order_id : 1..(PayMaxOrders + 1), passenger_id : {1, 2},
     amount : {23015, 23020, 25000, 25010, 30010}]

NextPay ==
    \/ \E input \in PayOrderInputs : Len(orders) < PayMaxOrders /\ CreateOrder(input)
    \/ \E input \in PayBidInputs : Len(bids) < PayMaxBids /\ CreateDriverBid(input)
    \/ \E input \in PayAcceptInputs : AcceptBid(input)
    \/ \E input \in PayStatusInputs : UpdateOrderStatus(input)
    \/ \E input \in PayPaymentInputs : ProcessQrisPayment(input)

SpecPay == Init /\ [][NextPay]_vars

----------------------------------------------------------------------------
(* SpecSubscribe: createDriverSubscription calls that run concurrently.  A *)
(* call gives way to the other calls, and to the clock, at each await.     *)
(* Its two SELECTs are one step here: no handler of this specification     *)
(* writes users or inserts a profile.                                      *)

SubscribeInit ==
    /\ users = DriversUsers
    /\ profiles = DriversProfiles
    /\ orders = <<>>
    /\ bids = <<>>
    /\ subscriptions = <<>>
    /\ now = 0
    /\ last = Returned("none", OK)
    /\ calls = [c \in Callers |-> IdleCall]

SubscribeInputs ==
    [driver_id : {1, 2}, subscription_type : {"monthly"}, amount : {50000}]

\* The calls that have passed their checks and not yet returned
InFlight == {c \in Callers : calls[c].pc # "idle"}

\* The two SELECTs and their checks; const now = new Date(); expiryDate
SubscribeCheck(c, input) ==
    /\ calls[c].pc = "idle"
    /\ Len(subscriptions) + Cardinality(InFlight) < SubMaxSubscriptions
    /\ LET r == createDriverSubscription(input)
       IN  IF r.err # OK
           THEN CallThrows(c, "createDriverSubscription", r.err)
           ELSE /\ calls' = [calls EXCEPT ![c] =
                                [pc |-> "insert", input |-> input,
                                 now |-> now, expiryDate |-> now + SubscriptionDays]]
                /\ UNCHANGED <<users, profiles, orders, bids, subscriptions, now, last>>

\* await db.insert(driverSubscriptionsTable).values({...})
SubscribeInsert(c) ==
    /\ calls[c].pc = "insert"
    /\ subscriptions' = Insert(subscriptions,
                               [driver_id |-> calls[c].input.driver_id,
                                subscription_type |-> calls[c].input.subscription_type,
                                amount |-> ToNumeric2(calls[c].input.amount),
                                payment_status |-> "pending",
                                starts_at |-> calls[c].now,
                                expires_at |-> calls[c].expiryDate])
    /\ calls' = [calls EXCEPT ![c].pc = "update"]
    /\ UNCHANGED <<users, profiles, orders, bids, now, last>>

\* await db.update(driverProfilesTable).set({subscription_expires_at: expiryDate})
SubscribeUpdate(c) ==
    /\ calls[c].pc = "update"
    /\ profiles' = UpdateProfileOf(calls[c].input.driver_id,
                                   [subscription_expires_at |-> calls[c].expiryDate])
    /\ calls' = [calls EXCEPT ![c] = IdleCall]
    /\ last' = Returned("createDriverSubscription", OK)
    /\ UNCHANGED <<users, orders, bids, subscriptions, now>>

NextSubscribe ==
    \/ \E c \in Callers, input \in SubscribeInputs : SubscribeCheck(c, input)
    \/ \E c \in Callers : SubscribeInsert(c)
    \/ \E c \in Callers : SubscribeUpdate(c)
    \/ Tick

SpecSubscribe == SubscribeInit /\ [][NextSubscribe]_vars

----------------------------------------------------------------------------
(* SpecRegister: registration from the empty store, one call at a time *)

RegisterInit ==
    /\ users = <<>>
    /\ profiles = <<>>
    /\ orders = <<>>
    /\ bids = <<>>
    /\ subscriptions = <<>>
    /\ now = 0
    /\ last = Returned("none", OK)
    /\ calls = NoCalls

RegisterInputs == [email : {"a", "b", "c"}, role : {"passenger", "driver"}]

ProfileInputs ==
    [user_id : 1..(RegMaxUsers + 1), license_number : {"L1"},
     vehicle_type : {"car"}, vehicle_plate : {"B 1"}]

NextRegister ==
    \/ \E input \in RegisterInputs :
        /\ Len(users) < RegMaxUsers \/ registerUser(input).err # OK
        /\ RegisterUser(input)
    \/ \E input \in ProfileInputs : CreateDriverProfile(input)

SpecRegister == RegisterInit /\ [][NextRegister]_vars

----------------------------------------------------------------------------
(* SpecRegisterRace: registerUser and createDriverProfile calls that run   *)
(* concurrently.  A call gives way to the other calls at each await, and   *)
(* an awaited statement may fail (the connection is lost, the statement    *)
(* times out): the call then throws, and what it has written stays.        *)

RegisterRaceInit ==
    /\ users = <<>>
    /\ profiles = <<>>
    /\ orders = <<>>
    /\ bids = <<>>
    /\ subscriptions = <<>>
    /\ now = 0
    /\ last = Returned("none", OK)
    /\ calls = [c \in Callers |-> IdleCall]

RaceRegisterInputs == [email : {"a", "b"}, role : {"passenger", "driver"}]

RaceProfileInputs ==
    [user_id : 1..RegMaxUsers, license_number : {"L1"},
     vehicle_type : {"car"}, vehicle_plate : {"B 1"}]

\* The registerUser calls that have not yet inserted their user
Registering == {c \in Callers : calls[c].pc \in {"hash", "insertUser"}}

\* await db.select().from(usersTable).where(eq(email)).limit(1)
RegisterSelect(c, input) ==
    /\ calls[c].pc = "idle"
    /\ IF Select(users, LAMBDA id, u : u.email = input.email) # {}
       THEN CallThrows(c, "registerUser", ErrEmailExists)
       ELSE /\ Len(users) + Cardinality(Registering) < RegMaxUsers
            /\ calls' = [calls EXCEPT ![c] =
                            [pc |-> "hash", op |-> "registerUser", input |-> input]]
            /\ UNCHANGED <<users, profiles, orders, bids, subscriptions, now, last>>

\* await Bun.password.hash(input.password)
RegisterHash(c) ==
    /\ calls[c].pc = "hash"
    /\ calls' = [calls EXCEPT ![c].pc = "insertUser"]
    /\ UNCHANGED <<users, profiles, orders, bids, subscriptions, now, last>>

\* await db.insert(usersTable): email is UNIQUE
RegisterInsertUser(c) ==
    /\ calls[c].pc = "insertUser"
    /\ LET input == calls[c].input
       IN  IF Select(users, LAMBDA id, u : u.email = input.email) # {}
           THEN CallThrows(c, "registerUser", ErrUniqueEmail)
           ELSE /\ users' = Insert(users, [email |-> input.email, role |-> input.role])
                /\ IF input.role = "driver"
                   THEN /\ calls' = [calls EXCEPT ![c] =
                                        [pc |-> "insertProfile", op |-> "registerUser",
                                         input |-> input, user_id |-> Len(users) + 1]]
                        /\ last' = last
                   ELSE /\ calls' = [calls EXCEPT ![c] = IdleCall]
                        /\ last' = Returned("registerUser", OK)
                /\ UNCHANGED <<profiles, orders, bids, subscriptions, now>>

\* await db.insert(driverProfilesTable)
RegisterInsertProfile(c) ==
    /\ calls[c].pc = "insertProfile"
    /\ profiles' = Insert(profiles, registerUserProfile(calls[c].user_id))
    /\ calls' = [calls EXCEPT ![c] = IdleCall]
    /\ last' = Returned("registerUser", OK)
    /\ UNCHANGED <<users, orders, bids, subscriptions, now>>

\* await db.select().from(usersTable).where(eq(id)), and the checks on it
ProfileSelectUser(c, input) ==
    /\ calls[c].pc = "idle"
    /\ IF Select(users, LAMBDA id, u : id = input.user_id) = {}
       THEN CallThrows(c, "createDriverProfile", ErrUserNotFound)
       ELSE IF users[input.user_id].role # "driver"
       THEN CallThrows(c, "createDriverProfile", ErrMustBeDriver)
       ELSE /\ calls' = [calls EXCEPT ![c] =
                            [pc |-> "selectProfile", op |-> "createDriverProfile",
                             input |-> input]]
            /\ UNCHANGED <<users, profiles, orders, bids, subscriptions, now, last>>

\* await db.select().from(driverProfilesTable).where(eq(user_id))
ProfileSelectProfile(c) ==
    /\ calls[c].pc = "selectProfile"
    /\ IF Select(profiles, LAMBDA id, p : p.user_id = calls[c].input.user_id) # {}
       THEN CallThrows(c, "createDriverProfile", ErrProfileExists)
       ELSE /\ calls' = [calls EXCEPT ![c].pc = "insert"]
            /\ UNCHANGED <<users, profiles, orders, bids, subscriptions, now, last>>

\* await db.insert(driverProfilesTable).values({...}).returning()
ProfileInsert(c) ==
    /\ calls[c].pc = "insert"
    /\ LET input == calls[c].input
       IN  profiles' = Insert(profiles,
                              NewProfile(input.user_id, input.license_number,
                                         input.vehicle_type, input.vehicle_plate))
    /\ calls' = [calls EXCEPT ![c] = IdleCall]
    /\ last' = Returned("createDriverProfile", OK)
    /\ UNCHANGED <<users, orders, bids, subscriptions, now>>

\* The statement a call awaits fails: catch (error) { throw error }
StatementFails(c) ==
    /\ calls[c].pc # "idle"
    /\ CallThrows(c, calls[c].op, ErrStatement)

NextRegisterRace ==
    \/ \E c \in Callers, input \in RaceRegisterInputs : RegisterSelect(c, input)
    \/ \E c \in Callers : RegisterHash(c)
    \/ \E c \in Callers : RegisterInsertUser(c)
    \/ \E c \in Callers : RegisterInsertProfile(c)
    \/ \E c \in Callers, input \in RaceProfileInputs : ProfileSelectUser(c, input)
    \/ \E c \in Callers : ProfileSelectProfile(c)
    \/ \E c \in Callers : ProfileInsert(c)
    \/ \E c \in Callers : StatementFails(c)

SpecRegisterRace == RegisterRaceInit /\ [][NextRegisterRace]_vars

----------------------------------------------------------------------------
(* SpecStatusRace: updateOrderStatus and acceptBid calls that run          *)
(* concurrently.  updateOrderStatus checks the transition and computes the *)
(* columns to write from the order row it read, then awaits its UPDATE.    *)

RaceStatusInputs ==
    [order_id : 1..RaceMaxOrders, status : OrderStatus \ {"pending"},
     final_fare : {NULL}]

\* await db.select().from(ordersTable).where(eq(id))
StatusSelect(c, input) ==
    /\ calls[c].pc = "idle"
    /\ IF Select(orders, LAMBDA id, o : id = input.order_id) = {}
       THEN CallThrows(c, "updateOrderStatus", ErrOrderIdNotFound)
       ELSE /\ calls' = [calls EXCEPT ![c] =
                            [pc |-> "status", input |-> input,
                             order |-> orders[input.order_id]]]
            /\ UNCHANGED <<users, profiles, orders, bids, subscriptions, now, last>>

\* The check of validTransitions, updateValues, await db.update(ordersTable)
StatusUpdate(c) ==
    /\ calls[c].pc = "status"
    /\ LET input == calls[c].input
           order == calls[c].order
       IN  IF input.status \notin validTransitions[order.status]
           THEN CallThrows(c, "updateOrderStatus", ErrInvalidTransition)
           ELSE /\ orders' = Update(orders, input.order_id, updateValues(order, input))
                /\ calls' = [calls EXCEPT ![c] = IdleCall]
                /\ last' = Returned("updateOrderStatus", OK)
                /\ UNCHANGED <<users, profiles, bids, subscriptions, now>>

NextStatusRace ==
    \/ \E input \in RaceOrderInputs :
        /\ Len(orders) < RaceMaxOrders
        /\ LET r == createOrder(input)
           IN  /\ orders' = r.orders
               /\ last' = Returned("createOrder", r.err)
               /\ UNCHANGED <<users, profiles, bids, subscriptions, now, calls>>
    \/ \E input \in RaceBidInputs :
        /\ Len(bids) < RaceMaxBids
        /\ LET r == createDriverBid(input)
           IN  /\ bids' = r.bids
               /\ last' = Returned("createDriverBid", r.err)
               /\ UNCHANGED <<users, profiles, orders, subscriptions, now, calls>>
    \/ \E c \in Callers, input \in RaceAcceptInputs : AcceptSelectOrder(c, input)
    \/ \E c \in Callers : AcceptSelectBid(c)
    \/ \E c \in Callers : AcceptUpdate(c)
    \/ \E c \in Callers, input \in RaceStatusInputs : StatusSelect(c, input)
    \/ \E c \in Callers : StatusUpdate(c)

SpecStatusRace == RaceInit /\ [][NextStatusRace]_vars

----------------------------------------------------------------------------
(* The order state machine *)

\* The six edges of the transition table
SixEdges ==
    {<<"pending", "accepted">>, <<"pending", "cancelled">>,
     <<"accepted", "in_progress">>, <<"accepted", "cancelled">>,
     <<"in_progress", "completed">>, <<"in_progress", "cancelled">>}

\* C1: updateOrderStatus on an existing order succeeds, and sets the status,
\* exactly when (current status, new status) is one of the six edges; for
\* every other pair it throws the invalid-transition error and leaves the
\* tables unchanged; cancellation succeeds from pending, accepted and
\* in_progress.
C1_UpdateFollowsTable ==
    \A input \in StatusInputs :
        input.order_id \in DOMAIN orders =>
            LET from == orders[input.order_id].status
                r == updateOrderStatus(input)
            IN  /\ <<from, input.status>> \in SixEdges =>
                    /\ r.err = OK
                    /\ r.orders[input.order_id].status = input.status
                /\ <<from, input.status>> \notin SixEdges =>
                    /\ r.err = ErrInvalidTransition
                    /\ r.orders = orders
                    /\ r.bids = bids
                /\ (input.status = "cancelled"
                    /\ from \in {"pending", "accepted", "in_progress"}) => r.err = OK

\* A request on a completed order was rejected
C1_Witness ==
    /\ last = Returned("updateOrderStatus", ErrInvalidTransition)
    /\ \E id \in DOMAIN orders : orders[id].status = "completed"

\* C2: in every step of any sequence of handler calls, an order that changes
\* its status follows one of the six edges, a new order is pending, and no
\* order disappears (so none returns to pending or leaves completed or
\* cancelled).
C2_StatusChangesAreEdges ==
    [][/\ DOMAIN orders \subseteq DOMAIN orders'
       /\ \A id \in DOMAIN orders' :
            IF id \in DOMAIN orders
            THEN orders'[id].status # orders[id].status =>
                     <<orders[id].status, orders'[id].status>> \in SixEdges
            ELSE orders'[id].status = "pending"]_vars

\* An order was accepted through a bid and has run to completion
C2_Witness ==
    \E id \in DOMAIN orders :
        /\ orders[id].status = "completed"
        /\ orders[id].driver_id # NULL
        /\ last = Returned("updateOrderStatus", OK)

----------------------------------------------------------------------------
(* acceptBid *)

\* The columns of an order other than those named in cols
SameExcept(before, after, cols) ==
    /\ DOMAIN after = DOMAIN before
    /\ \A c \in DOMAIN before \ cols : after[c] = before[c]

\* C3: a successful acceptBid leaves the order accepted, with the driver and
\* the amount of the accepted bid as driver_id and final_fare; the other
\* columns of the order, the other orders and all bids are unchanged.
C3_AcceptSetsDriverAndFare ==
    \A input \in BidAcceptInputs :
        LET r == acceptBid(input)
        IN  r.err = OK =>
                /\ r.orders[input.order_id].status = "accepted"
                /\ r.orders[input.order_id].driver_id = bids[input.bid_id].driver_id
                /\ r.orders[input.order_id].final_fare = bids[input.bid_id].bid_amount
                /\ SameExcept(orders[input.order_id], r.orders[input.order_id],
                              {"status", "driver_id", "final_fare"})
                /\ DOMAIN r.orders = DOMAIN orders
                /\ \A id \in DOMAIN orders \ {input.order_id} : r.orders[id] = orders[id]
                /\ r.bids = bids

\* The cheaper of two bids on an order was accepted
C3_Witness ==
    /\ last = Returned("acceptBid", OK)
    /\ \E id \in DOMAIN orders, b1, b2 \in DOMAIN bids :
        /\ b1 # b2
        /\ bids[b1].order_id = id
        /\ bids[b2].order_id = id
        /\ bids[b1].bid_amount < bids[b2].bid_amount
        /\ orders[id].status = "accepted"
        /\ orders[id].final_fare = bids[b1].bid_amount
        /\ orders[id].driver_id = bids[b1].driver_id

OwnedBy(order_id, passenger_id) ==
    /\ order_id \in DOMAIN orders
    /\ orders[order_id].passenger_id = passenger_id

BidOf(bid_id, order_id) ==
    /\ bid_id \in DOMAIN bids
    /\ bids[bid_id].order_id = order_id

\* C4: acceptBid fails, changing nothing, with the not-found error of the
\* order when no order has the id and the passenger, else with the
\* not-found error of the bid when no bid has the id under that order, else
\* with the not-pending error when the order is not pending; so on an
\* accepted order it fails in every later state and the order keeps its
\* driver and fare.
C4_AcceptFailsInOrder ==
    \A input \in BidAcceptInputs :
        LET r == acceptBid(input)
            expected ==
                IF ~OwnedBy(input.order_id, input.passenger_id) THEN ErrOrderNotOwned
                ELSE IF ~BidOf(input.bid_id, input.order_id) THEN ErrBidNotFound
                ELSE IF orders[input.order_id].status # "pending" THEN ErrNotPending
                ELSE OK
        IN  /\ r.err = expected
            /\ r.err # OK => r.orders = orders /\ r.bids = bids

\* A second acceptBid on an accepted order was rejected, with another bid
\* than the accepted one placed on the order
C4_Witness ==
    /\ last = Returned("acceptBid", ErrNotPending)
    /\ \E id \in DOMAIN orders, b \in DOMAIN bids :
        /\ orders[id].status = "accepted"
        /\ bids[b].order_id = id
        /\ orders[id].final_fare # bids[b].bid_amount

----------------------------------------------------------------------------
(* Ownership *)

\* The table without the row id
Delete(table, id) == [i \in DOMAIN table \ {id} |-> table[i]]

\* C6: for a caller who is not the passenger of an existing order, acceptBid
\* and processQrisPayment throw the same not-found error against the store
\* as it is and against the store without that order, and change neither
\* store.
C6_ForeignOrderLooksAbsent ==
    /\ \A input \in AcceptInputs :
        (input.order_id \in DOMAIN orders
         /\ orders[input.order_id].passenger_id # input.passenger_id) =>
            LET absent == Delete(orders, input.order_id)
                here == acceptBidOn(orders, bids, input)
                gone == acceptBidOn(absent, bids, input)
            IN  /\ here.err = gone.err
                /\ here.err = ErrOrderNotOwned
                /\ here.orders = orders /\ here.bids = bids
                /\ gone.orders = absent /\ gone.bids = bids
    /\ \A input \in PaymentInputs :
        (input.order_id \in DOMAIN orders
         /\ orders[input.order_id].passenger_id # input.passenger_id) =>
            LET absent == Delete(orders, input.order_id)
                here == processQrisPaymentOn(orders, input)
                gone == processQrisPaymentOn(absent, input)
            IN  /\ here.err = gone.err
                /\ here.err = ErrPayNotOwned
                /\ here.orders = orders /\ here.bids = bids
                /\ gone.orders = absent /\ gone.bids = bids

\* A payment was refused as not found while an accepted, unpaid order of
\* passenger 1 with a bid is in the store
C6_Witness ==
    /\ last = Returned("processQrisPayment", ErrPayNotOwned)
    /\ \E id \in DOMAIN orders, b \in DOMAIN bids :
        /\ orders[id].passenger_id = 1
        /\ orders[id].status = "accepted"
        /\ orders[id].payment_status = "pending"
        /\ bids[b].order_id = id

----------------------------------------------------------------------------
(* createDriverBid *)

IsDriverWithProfile(driver_id) ==
    /\ driver_id \in DOMAIN users
    /\ users[driver_id].role = "driver"
    /\ \E p \in DOMAIN profiles : profiles[p].user_id = driver_id

ProfileOf(driver_id) ==
    profiles[CHOOSE p \in DOMAIN profiles : profiles[p].user_id = driver_id]

\* The error createDriverBid is to throw, by precedence
BidExpected(input) ==
    IF input.order_id \notin DOMAIN orders THEN ErrOrderNotFound
    ELSE IF orders[input.order_id].status # "pending" THEN ErrNotBiddable
    ELSE IF ~IsDriverWithProfile(input.driver_id) THEN ErrDriverInvalid
    ELSE IF ~ProfileOf(input.driver_id).is_available THEN ErrDriverUnavailable
    ELSE IF ProfileOf(input.driver_id).subscription_expires_at = NULL
            \/ ProfileOf(input.driver_id).subscription_expires_at <= now
    THEN ErrSubscriptionInactive
    ELSE OK

\* createDriverBid throws the error its checks give by precedence and then
\* stores nothing; when it returns it has appended one bid
BidChecked(input, r) ==
    /\ r.err = BidExpected(input)
    /\ r.orders = orders
    /\ r.err # OK => r.bids = bids
    /\ r.err = OK =>
        /\ Len(r.bids) = Len(bids) + 1
        /\ SubSeq(r.bids, 1, Len(bids)) = bids

----------------------------------------------------------------------------
(* getOrderBids *)

\* The list is sorted by amount and, among equal amounts, by arrival time
BidsSorted(l) ==
    \A i, j \in DOMAIN l :
        i < j =>
            \/ l[i].bid_amount < l[j].bid_amount
            \/ /\ l[i].bid_amount = l[j].bid_amount
               /\ l[i].estimated_arrival_minutes <= l[j].estimated_arrival_minutes

\* C8: for a pending order getOrderBids returns a list that holds every bid
\* of the order once, and no other bid, sorted non-decreasing by bid_amount
\* and, among equal amounts, by estimated_arrival_minutes; it is the empty
\* list when the order has no bid.
C8_BidsListedSorted ==
    \A orderId \in DOMAIN orders :
        orders[orderId].status = "pending" =>
            LET r == getOrderBids(orderId)
                own == {b \in DOMAIN bids : bids[b].order_id = orderId}
            IN  /\ r.err = OK
                /\ r.results # {}
                /\ \A l \in r.results :
                    /\ BidsSorted(l)
                    /\ {l[k].id : k \in DOMAIN l} = own
                    /\ Len(l) = Cardinality(own)
                    /\ \A k \in DOMAIN l :
                        /\ l[k].order_id = orderId
                        /\ l[k].driver_id = bids[l[k].id].driver_id
                        /\ l[k].bid_amount = bids[l[k].id].bid_amount
                        /\ l[k].estimated_arrival_minutes =
                               bids[l[k].id].estimated_arrival_minutes
                /\ own = {} => r.results = {<<>>}

\* The bids of a pending order were listed: two of one amount, the slower
\* one placed first
C8_Witness ==
    /\ last = Returned("getOrderBids", OK)
    /\ \E b1, b2 \in DOMAIN bids :
        /\ b1 < b2
        /\ bids[b1].order_id = bids[b2].order_id
        /\ orders[bids[b1].order_id].status = "pending"
        /\ bids[b1].bid_amount = bids[b2].bid_amount
        /\ bids[b1].estimated_arrival_minutes > bids[b2].estimated_arrival_minutes

----------------------------------------------------------------------------
(* Bidding ends when the order leaves pending *)

BidsOf(table, orderId) == {b \in DOMAIN table : table[b].order_id = orderId}

\* C9: on an order that is no longer pending createDriverBid and
\* getOrderBids throw their not-pending errors and getAvailableOrders lists
\* it for no driver; and in every step such an order stays out of pending
\* and keeps its bids as they are.
C9_ClosedForBidding ==
    /\ [](\A orderId \in DOMAIN orders :
            orders[orderId].status # "pending" =>
                /\ \A input \in BidInputs :
                    input.order_id = orderId =>
                        /\ createDriverBid(input).err = ErrNotBiddable
                        /\ createDriverBid(input).bids = bids
                /\ getOrderBids(orderId).err = ErrBidsNotPending
                /\ \A driverId \in UserIds :
                    \A l \in getAvailableOrders(driverId).results :
                        \A k \in DOMAIN l : l[k] # orderId)
    /\ [][\A orderId \in DOMAIN orders :
            orders[orderId].status # "pending" =>
                /\ orderId \in DOMAIN orders'
                /\ orders'[orderId].status # "pending"
                /\ BidsOf(bids', orderId) = BidsOf(bids, orderId)
                /\ \A b \in BidsOf(bids, orderId) : bids'[b] = bids[b]]_vars

\* A bid on an accepted order that has a bid was refused
C9_Witness ==
    /\ last = Returned("createDriverBid", ErrNotBiddable)
    /\ \E id \in DOMAIN orders :
        /\ orders[id].status = "in_progress"
        /\ BidsOf(bids, id) # {}
        /\ Len(bids) < MaxBids

----------------------------------------------------------------------------
(* Concurrent acceptBid calls *)

\* C5: for any order at most one acceptBid call succeeds, also when the
\* calls interleave: a call applies its update only to an order that is
\* pending at that instant, so the driver_id and final_fare of an accepted
\* order are never overwritten by another acceptance.
C5_OneAcceptancePerOrder ==
    [][\A c \in Callers :
        (calls[c].pc = "bid" /\ calls'[c].pc = "idle"
         /\ last' = Returned("acceptBid", OK)) =>
            LET id == calls[c].input.order_id
            IN  /\ orders[id].status = "pending"
                /\ orders[id].driver_id = NULL
                /\ orders[id].final_fare = NULL]_vars

----------------------------------------------------------------------------
(* getNearbyDrivers *)

\* The profiles the query must return: available, owned by a driver, with
\* both coordinates, a subscription that expires after now, within the radius
NearbyEligible(input) ==
    {id \in DOMAIN profiles :
        /\ profiles[id].is_available
        /\ users[profiles[id].user_id].role = "driver"
        /\ profiles[id].current_latitude # NULL
        /\ profiles[id].current_longitude # NULL
        /\ profiles[id].subscription_expires_at # NULL
        /\ profiles[id].subscription_expires_at > now
        /\ calculateDistance(input.latitude, profiles[id].current_latitude)
               <= input.radius_km * 1000}

\* C10: getNearbyDrivers returns exactly the profiles that are available,
\* owned by a driver, with both coordinates, a subscription that expires
\* strictly after now (one that expires exactly at now counts as expired)
\* and a distance to the query point of at most radius_km, each once, in
\* ascending order of that distance.
C10_NearbyExactlyEligible ==
    \A input \in NearbyInputs :
        \A l \in getNearbyDrivers(input).results :
            /\ {l[i].id : i \in DOMAIN l} = NearbyEligible(input)
            /\ \A i, j \in DOMAIN l :
                 i < j =>
                    /\ l[i].id # l[j].id
                    /\ calculateDistance(input.latitude, l[i].current_latitude)
                         <= calculateDistance(input.latitude, l[j].current_latitude)

----------------------------------------------------------------------------
(* getAvailableOrders *)

\* The orders open to every driver: pending and without a driver
Candidates == {id \in DOMAIN orders :
                  orders[id].status = "pending" /\ orders[id].driver_id = NULL}

\* The distance in metres from the position of a profile to the pickup point
PickupDistance(profile, id) ==
    calculateDistance(profile.current_latitude, orders[id].pickup_latitude)

\* A list holds exactly the orders of S, each once
ListsExactly(l, S) ==
    /\ {l[i] : i \in DOMAIN l} = S
    /\ \A i, j \in DOMAIN l : i # j => l[i] # l[j]

----------------------------------------------------------------------------
(* processQrisPayment *)

\* The order of a payment request belongs to the passenger who pays
PayOwned(input) ==
    /\ input.order_id \in DOMAIN orders
    /\ orders[input.order_id].passenger_id = input.passenger_id

Payable == {"accepted", "in_progress", "completed"}

C13_PaidWithinTolerance ==
    \A input \in PayPaymentInputs :
        (/\ PayOwned(input)
         /\ orders[input.order_id].status \in Payable
         /\ orders[input.order_id].payment_status # "paid") =>
            LET r == processQrisPayment(input)
                order == orders[input.order_id]
                expected == IF order.final_fare # NULL
                            THEN order.final_fare
                            ELSE order.estimated_fare
            IN  /\ r.err = OK <=> Abs(input.amount - expected) <= Tolerance
                /\ r.err = OK =>
                    /\ r.orders[input.order_id].payment_status = "paid"
                    /\ r.orders[input.order_id].qris_payment_id # NoPaymentId
                    /\ DOMAIN r.orders = DOMAIN orders
                    /\ \A id \in DOMAIN orders \ {input.order_id} :
                        r.orders[id] = orders[id]
                    /\ SameExcept(order, r.orders[input.order_id],
                                  {"payment_status", "qris_payment_id"})
                    /\ r.bids = bids

----------------------------------------------------------------------------
(* updateOrderStatus: completion and cancellation *)

\* The call moves the order from a status to another one of the table
Moves(input, from, to) ==
    /\ input.order_id \in DOMAIN orders
    /\ orders[input.order_id].status = from
    /\ input.status = to

\* C14 as claimed: completing an order in progress makes payment_status paid
\* and final_fare the supplied final_fare, or leaves final_fare as it was
\* when none is supplied.
C14_FareAsSupplied ==
    \A input \in PayStatusInputs :
        Moves(input, "in_progress", "completed") =>
            LET after == updateOrderStatus(input).orders[input.order_id]
            IN  /\ after.payment_status = "paid"
                /\ after.final_fare = IF input.final_fare # NULL
                                      THEN input.final_fare
                                      ELSE orders[input.order_id].final_fare

\* C14: completing an order in progress succeeds, makes payment_status paid
\* whatever it was, and makes final_fare the supplied final_fare rounded to
\* two decimals, or leaves it as it was when none is supplied; only status,
\* payment_status and final_fare of that order change.  A call that succeeds
\* with another new status leaves final_fare as it was.
C14_CompletedPaidFareRounded ==
    \A input \in PayStatusInputs :
        LET r == updateOrderStatus(input)
            before == orders[input.order_id]
            after == r.orders[input.order_id]
        IN  /\ Moves(input, "in_progress", "completed") =>
                /\ r.err = OK
                /\ after.status = "completed"
                /\ after.payment_status = "paid"
                /\ after.final_fare = IF input.final_fare # NULL
                                      THEN ToNumeric2(input.final_fare)
                                      ELSE before.final_fare
                /\ SameExcept(before, after, {"status", "payment_status", "final_fare"})
            /\ (r.err = OK /\ input.status # "completed") =>
                after.final_fare = before.final_fare

\* An order in progress was completed with a final fare of three decimals
C14_Witness ==
    /\ last = Returned("updateOrderStatus", OK)
    /\ \E id \in DOMAIN orders :
        /\ orders[id].status = "completed"
        /\ orders[id].payment_status = "paid"
        /\ orders[id].final_fare = ToNumeric2(30005)
        /\ orders[id].driver_id # NULL

\* C15: a successful updateOrderStatus to cancelled makes payment_status
\* refunded if it was paid and leaves it as it was otherwise; only status and
\* payment_status of the order change, so qris_payment_id, driver_id and
\* final_fare are kept.
C15_CancelRefundsPaid ==
    \A input \in PayStatusInputs :
        LET r == updateOrderStatus(input)
            before == orders[input.order_id]
            after == r.orders[input.order_id]
        IN  (r.err = OK /\ input.status = "cancelled") =>
                /\ after.status = "cancelled"
                /\ after.payment_status = IF before.payment_status = "paid"
                                          THEN "refunded"
                                          ELSE before.payment_status
                /\ SameExcept(before, after, {"status", "payment_status"})

\* A paid order with a driver was cancelled and refunded
C15_Witness ==
    /\ last = Returned("updateOrderStatus", OK)
    /\ \E id \in DOMAIN orders :
        /\ orders[id].status = "cancelled"
        /\ orders[id].payment_status = "refunded"
        /\ orders[id].qris_payment_id # NoPaymentId
        /\ orders[id].driver_id # NULL
        /\ orders[id].final_fare # NULL

----------------------------------------------------------------------------
(* createDriverSubscription *)

ProfilesOf(driver_id) == {p \in DOMAIN profiles : profiles[p].user_id = driver_id}

\* C16: createDriverSubscription fails with "Driver not found" for a user
\* that does not exist, else with "User is not a driver" for a user whose
\* role is not driver, else with "Driver profile not found" for a driver
\* without profile, and then stores nothing.  Otherwise it succeeds: it
\* appends one subscription row with starts_at = now, expires_at = now + 30
\* days and payment_status pending, and sets subscription_expires_at of the
\* driver's profile to that expires_at whatever it was; nothing else changes.
C16_SubscriptionStored ==
    \A input \in SubscriptionInputs :
        LET r == createDriverSubscription(input)
            expected == IF input.driver_id \notin DOMAIN users
                        THEN ErrDriverNotFound
                        ELSE IF users[input.driver_id].role # "driver"
                        THEN ErrNotADriver
                        ELSE IF ProfilesOf(input.driver_id) = {}
                        THEN ErrProfileNotFound
                        ELSE OK
        IN  /\ r.err = expected
            /\ r.err # OK => r.profiles = profiles /\ r.subscriptions = subscriptions
            /\ r.err = OK =>
                /\ Len(r.subscriptions) = Len(subscriptions) + 1
                /\ SubSeq(r.subscriptions, 1, Len(subscriptions)) = subscriptions
                /\ LET row == r.subscriptions[Len(r.subscriptions)]
                   IN  /\ row.driver_id = input.driver_id
                       /\ row.starts_at = now
                       /\ row.expires_at = now + 30
                       /\ row.payment_status = "pending"
                /\ DOMAIN r.profiles = DOMAIN profiles
                /\ \A p \in DOMAIN profiles :
                    IF p \in ProfilesOf(input.driver_id)
                    THEN /\ r.profiles[p].subscription_expires_at = now + 30
                         /\ SameExcept(profiles[p], r.profiles[p],
                                       {"subscription_expires_at"})
                    ELSE r.profiles[p] = profiles[p]

\* A driver whose subscription was still running has bought another one
C16_Witness ==
    /\ last = Returned("createDriverSubscription", OK)
    /\ Len(subscriptions) = 2
    /\ subscriptions[1].driver_id = subscriptions[2].driver_id
    /\ subscriptions[1].expires_at > subscriptions[2].starts_at
    /\ subscriptions[1].expires_at < subscriptions[2].expires_at
    /\ \E p \in DOMAIN profiles :
        /\ profiles[p].user_id = subscriptions[2].driver_id
        /\ profiles[p].subscription_expires_at = subscriptions[2].expires_at

\* The subscription row of a driver that was inserted last
LatestSubscription(driver_id) ==
    LET own == {i \in DOMAIN subscriptions : subscriptions[i].driver_id = driver_id}
    IN  subscriptions[CHOOSE i \in own : \A j \in own : j <= i]

\* C17: whenever no createDriverSubscription call is in progress, the
\* subscription_expires_at of every profile is null if its driver has no
\* subscription row, and is otherwise the expires_at of the latest
\* subscription row of its driver, however concurrent calls interleave.
C17_ExpiryCopiesLatest ==
    InFlight = {} =>
        \A p \in DOMAIN profiles :
            IF \E i \in DOMAIN subscriptions :
                   subscriptions[i].driver_id = profiles[p].user_id
            THEN profiles[p].subscription_expires_at
                    = LatestSubscription(profiles[p].user_id).expires_at
            ELSE profiles[p].subscription_expires_at = NULL

----------------------------------------------------------------------------
(* registerUser, createDriverProfile *)

EmailTaken(email) == \E id \in DOMAIN users : users[id].email = email

\* C18: registerUser with an email of an existing user fails and stores
\* nothing.  Otherwise it appends the user, and for role driver appends
\* exactly one profile of that user with empty license_number, vehicle_type
\* and vehicle_plate, is_available false, no position and no subscription;
\* for role passenger it stores no profile.  No two users share an email.
C18_RegisterCreatesEmptyProfile ==
    /\ \A i, j \in DOMAIN users : users[i].email = users[j].email => i = j
    /\ \A input \in RegisterInputs :
        LET r == registerUser(input)
            id == Len(users) + 1
        IN  IF EmailTaken(input.email)
            THEN r.err # OK /\ r.users = users /\ r.profiles = profiles
            ELSE /\ r.err = OK
                 /\ r.users = Append(users, [email |-> input.email, role |-> input.role])
                 /\ IF input.role = "driver"
                    THEN r.profiles =
                            Append(profiles,
                                   [user_id |-> id,
                                    license_number |-> "",
                                    vehicle_type |-> "",
                                    vehicle_plate |-> "",
                                    is_available |-> FALSE,
                                    current_latitude |-> NULL,
                                    current_longitude |-> NULL,
                                    subscription_expires_at |-> NULL])
                    ELSE r.profiles = profiles
                 /\ Cardinality({p \in DOMAIN r.profiles : r.profiles[p].user_id = id})
                        = IF input.role = "driver" THEN 1 ELSE 0

\* A registration with a taken email was refused while a driver and a
\* passenger are registered and the driver has a profile
C18_Witness ==
    /\ last = Returned("registerUser", ErrEmailExists)
    /\ \E d, u \in DOMAIN users :
        /\ users[d].role = "driver"
        /\ users[u].role = "passenger"
        /\ \E p \in DOMAIN profiles : profiles[p].user_id = d

\* C19: in every reachable state each user owns at most one profile and
\* only users with role driver own one, however the check and insert steps
\* of concurrent createDriverProfile and registerUser calls interleave.
C19_OneProfilePerUser ==
    /\ \A p, q \in DOMAIN profiles : profiles[p].user_id = profiles[q].user_id => p = q
    /\ \A p \in DOMAIN profiles :
        /\ profiles[p].user_id \in DOMAIN users
        /\ users[profiles[p].user_id].role = "driver"

\* C20: a call that fails or is cut short leaves the store as it was before
\* the call, hence whenever no call is in progress every user with role
\* driver has a profile.
C20_NoHalfRegisteredDriver ==
    InFlight = {} =>
        \A id \in DOMAIN users :
            users[id].role = "driver" =>
                \E p \in DOMAIN profiles : profiles[p].user_id = id

----------------------------------------------------------------------------
(* updateDriverLocation *)

----------------------------------------------------------------------------
(* Orders under concurrent calls *)

\* C22: an order that is cancelled or completed keeps its status, however
\* the read steps and the write steps of concurrent acceptBid and
\* updateOrderStatus calls interleave.
C22_TerminalStatusKept ==
    [][\A id \in DOMAIN orders :
        orders[id].status \in {"cancelled", "completed"} =>
            orders'[id].status = orders[id].status]_vars

----------------------------------------------------------------------------
(* Orders in every reachable state *)

\* C23: every order that is accepted, in progress or completed has a
\* driver_id, and every pending order has none.
C23_DriverAssigned ==
    \A id \in DOMAIN orders :
        /\ orders[id].status \in {"accepted", "in_progress", "completed"} =>
            orders[id].driver_id # NULL
        /\ orders[id].status = "pending" => orders[id].driver_id = NULL

\* C24: with calls executed one at a time, a completed order is paid, a
\* refunded order is cancelled, a cancelled order is not paid, a pending
\* order has payment_status pending, and no order has payment_status failed.
C24_StatusAgreesWithPayment ==
    \A id \in DOMAIN orders :
        /\ orders[id].status = "completed" => orders[id].payment_status = "paid"
        /\ orders[id].payment_status = "refunded" => orders[id].status = "cancelled"
        /\ orders[id].status = "cancelled" => orders[id].payment_status # "paid"
        /\ orders[id].status = "pending" => orders[id].payment_status = "pending"
        /\ orders[id].payment_status # "failed"

\* A paid order was cancelled and is refunded
C24_Witness ==
    /\ last = Returned("updateOrderStatus", OK)
    /\ \E id \in DOMAIN orders :
        /\ orders[id].status = "cancelled"
        /\ orders[id].payment_status = "refunded"

\* C25: with calls executed one at a time, processQrisPayment succeeds only
\* on an order that has no qris_payment_id yet, an order has a
\* qris_payment_id only if its payment_status is paid or refunded, and a
\* qris_payment_id that is set is never changed or cleared: so a payment
\* succeeds at most once per order.
C25_PaidOnce ==
    /\ [](/\ \A input \in PaymentInputs :
              processQrisPayment(input).err = OK =>
                  orders[input.order_id].qris_payment_id = NoPaymentId
          /\ \A id \in DOMAIN orders :
              orders[id].qris_payment_id # NoPaymentId =>
                  orders[id].payment_status \in {"paid", "refunded"})
    /\ [][\A id \in DOMAIN orders :
            orders[id].qris_payment_id # NoPaymentId =>
                orders'[id].qris_payment_id = orders[id].qris_payment_id]_vars

\* A payment was refused for an order that had been paid and then cancelled
C25_Witness ==
    /\ last = Returned("processQrisPayment", ErrNotPayable)
    /\ \E id \in DOMAIN orders :
        /\ orders[id].qris_payment_id # NoPaymentId
        /\ orders[id].payment_status = "refunded"
        /\ orders[id].passenger_id = 1

\* C26: once processQrisPayment has succeeded on an order, the fare the
\* payment was matched against (final_fare if it is set, else
\* estimated_fare) does not change in any later step, whatever
\* updateOrderStatus calls follow.
C26_PaidFareKept ==
    [][\A id \in DOMAIN orders :
        orders[id].qris_payment_id # NoPaymentId =>
            expectedAmount(orders'[id]) = expectedAmount(orders[id])]_vars

----------------------------------------------------------------------------
(* What each handler leaves alone *)

\* C27: no step changes the passenger_id, pickup coordinates or
\* estimated_fare of an existing order, deletes an order, or modifies or
\* deletes an existing bid; driver_id is changed only by acceptBid,
\* final_fare only by acceptBid and by an updateOrderStatus that completes
\* the order, and qris_payment_id only by processQrisPayment.
C27_FrameOfOrdersAndBids ==
    [][/\ \A id \in DOMAIN orders :
            /\ id \in DOMAIN orders'
            /\ SameExcept(orders[id], orders'[id],
                          {"status", "payment_status", "driver_id", "final_fare",
                           "qris_payment_id"})
            /\ orders'[id].driver_id # orders[id].driver_id =>
                   last'.op = "acceptBid"
            /\ orders'[id].final_fare # orders[id].final_fare =>
                   \/ last'.op = "acceptBid"
                   \/ /\ last'.op = "updateOrderStatus"
                      /\ orders'[id].status = "completed"
            /\ orders'[id].qris_payment_id # orders[id].qris_payment_id =>
                   last'.op = "processQrisPayment"
       /\ \A b \in DOMAIN bids : b \in DOMAIN bids' /\ bids'[b] = bids[b]]_vars

\* An order with a bid went through acceptBid, processQrisPayment and a
\* completing updateOrderStatus that supplied a final fare
C27_Witness ==
    /\ last = Returned("updateOrderStatus", OK)
    /\ \E id \in DOMAIN orders :
        /\ orders[id].status = "completed"
        /\ orders[id].driver_id # NULL
        /\ orders[id].qris_payment_id # NoPaymentId
        /\ orders[id].final_fare = 30000
        /\ BidsOf(bids, id) # {}

----------------------------------------------------------------------------
(* The subscription expiry over time *)

\* C28: with a clock that does not go back and calls executed one at a
\* time, the subscription_expires_at of a driver profile is changed only by
\* createDriverSubscription, never decreases and never returns to null.
C28_ExpiryNeverShortened ==
    [][\A p \in DOMAIN profiles :
        /\ p \in DOMAIN profiles'
        /\ profiles'[p].subscription_expires_at # profiles[p].subscription_expires_at =>
               last'.op = "createDriverSubscription"
        /\ profiles[p].subscription_expires_at # NULL =>
               /\ profiles'[p].subscription_expires_at # NULL
               /\ profiles'[p].subscription_expires_at >=
                      profiles[p].subscription_expires_at]_vars

\* A driver who had a subscription bought another one later, and then
\* reported a position
C28_Witness ==
    /\ last = Returned("updateDriverLocation", OK)
    /\ \E p \in DOMAIN profiles :
        /\ profiles[p].subscription_expires_at > SubscriptionDays
        /\ profiles[p].current_latitude # NULL
        /\ \E s, t \in DOMAIN subscriptions :
            /\ s < t
            /\ subscriptions[s].driver_id = profiles[p].user_id
            /\ subscriptions[t].driver_id = profiles[p].user_id
            /\ subscriptions[s].expires_at < subscriptions[t].expires_at

----------------------------------------------------------------------------
(* The subscription checks of the three operations, at one instant *)

\* C29: for every driver profile, createDriverBid's subscription check
\* passes if and only if getAvailableOrders does not short-circuit to the
\* empty list, if and only if getNearbyDrivers' subscription filter admits
\* the driver (an available driver at the query point); and a driver to
\* whom getAvailableOrders lists an order is not refused a bid on it for an
\* inactive subscription.
C29_SubscriptionChecksAgree ==
    \A p \in DOMAIN profiles :
        LET profile == profiles[p]
            driver == profile.user_id
            listed == \E l \in getNearbyDrivers([latitude |-> 0, longitude |-> 0,
                                                 radius_km |-> 10]).results :
                          \E k \in DOMAIN l : l[k].user_id = driver
        IN  /\ ~bidSubscriptionInactive(profile) <=> ~ordersSubscriptionInactive(profile)
            /\ (/\ profile.is_available
                /\ profile.current_latitude = 0
                /\ profile.current_longitude = 0) =>
                   (listed <=> ~ordersSubscriptionInactive(profile))
            /\ \A l \in getAvailableOrders(driver).results :
                   \A k \in DOMAIN l :
                       createDriverBid([order_id |-> l[k],
                                        driver_id |-> driver,
                                        bid_amount |-> 23000,
                                        estimated_arrival_minutes |-> 10]).err
                           # ErrSubscriptionInactive

----------------------------------------------------------------------------
(* createDriverProfile after registerUser *)

\* C30: for a driver whose profile registerUser created with empty
\* license_number, vehicle_type and vehicle_plate, a createDriverProfile call
\* with valid fields succeeds, and the driver's profile then carries the
\* fields of the call.
C30_ProfileFilledInLater ==
    \A input \in ProfileInputs :
        (/\ input.user_id \in DOMAIN users
         /\ users[input.user_id].role = "driver"
         /\ \E p \in DOMAIN profiles : profiles[p] = registerUserProfile(input.user_id)) =>
            LET r == createDriverProfile(input)
            IN  /\ r.err = OK
                /\ \A p \in DOMAIN r.profiles :
                       r.profiles[p].user_id = input.user_id =>
                           /\ r.profiles[p].license_number = input.license_number
                           /\ r.profiles[p].vehicle_type = input.vehicle_type
                           /\ r.profiles[p].vehicle_plate = input.vehicle_plate

====
